---- MODULE Spec2Model ----
(***************************************************************************)
(* update_verifier: verification of the cared blocks of the partitions     *)
(* after an A/B OTA update, and the decision between marking the current   *)
(* slot as booted successfully and rebooting the device.                   *)
(*                                                                         *)
(* Strings are TLA+ strings; the library string functions the code calls   *)
(* (Trim, Split, StartsWith, EndsWith, EqualsIgnoreCase) are computed      *)
(* character by character.                                                 *)
(***************************************************************************)
EXTENDS Integers, Sequences, FiniteSets, TLC

(***************************************************************************)
(* Bounds of the model.                                                    *)
(***************************************************************************)
\* std::thread::hardware_concurrency() reports a value in 0 .. MaxHw.
MaxHw == 2
\* The range sets of the verification runs have their ends in 0 .. MaxBlock
\* and at most MaxPairs pairs.
MaxBlock == 4
MaxPairs == 3

(***************************************************************************)
(* Program constants.                                                      *)
(***************************************************************************)
kBlockSize == 4096
kChunkBlocks == 1024
kDefaultThreads == 4

(***************************************************************************)
(* Characters and strings.                                                 *)
(***************************************************************************)
Char(s, i) == SubSeq(s, i, i)

\* The characters of the model in ASCII order.
Ascii == "\t\n\r ,-./0123456789ABCDEFGHIJKLMNOPQRSTUVWXYZ_abcdefghijklmnopqrstuvwxyz"

Ord(c) == IF \E i \in 1..Len(Ascii) : Char(Ascii, i) = c
          THEN CHOOSE i \in 1..Len(Ascii) : Char(Ascii, i) = c
          ELSE 0

UpperCase == "ABCDEFGHIJKLMNOPQRSTUVWXYZ"
LowerCase == "abcdefghijklmnopqrstuvwxyz"

ToLower(c) == IF \E i \in 1..Len(UpperCase) : Char(UpperCase, i) = c
              THEN Char(LowerCase, CHOOSE i \in 1..Len(UpperCase) : Char(UpperCase, i) = c)
              ELSE c

IsSpace(c) == c \in {" ", "\t", "\n", "\r"}

Digits == "0123456789"

IsDigit(c) == \E i \in 1..Len(Digits) : Char(Digits, i) = c

DigitVal(c) == (CHOOSE i \in 1..Len(Digits) : Char(Digits, i) = c) - 1

\* android::base::StartsWith
StartsWith(s, prefix) ==
  /\ Len(s) >= Len(prefix)
  /\ SubSeq(s, 1, Len(prefix)) = prefix

\* android::base::EndsWith
EndsWith(s, suffix) ==
  /\ Len(s) >= Len(suffix)
  /\ SubSeq(s, Len(s) - Len(suffix) + 1, Len(s)) = suffix

\* android::base::EqualsIgnoreCase
EqualsIgnoreCase(a, b) ==
  /\ Len(a) = Len(b)
  /\ \A i \in 1..Len(a) : ToLower(Char(a, i)) = ToLower(Char(b, i))

\* android::base::Trim: strips the white space at both ends.
Trim(s) ==
  LET keep == {i \in 1..Len(s) : ~IsSpace(Char(s, i))}
  IN  IF keep = {} THEN ""
      ELSE LET first == CHOOSE i \in keep : \A j \in keep : i <= j
               last  == CHOOSE i \in keep : \A j \in keep : j <= i
           IN  SubSeq(s, first, last)

\* android::base::Split with a one-character delimiter: the pieces between
\* the delimiters, empty pieces included; an empty string gives one piece.
RECURSIVE SplitFrom(_, _, _)
SplitFrom(s, delim, from) ==
  LET hits == {i \in from..Len(s) : Char(s, i) = delim}
  IN  IF hits = {} THEN <<SubSeq(s, from, Len(s))>>
      ELSE LET at == CHOOSE i \in hits : \A j \in hits : i <= j
           IN  <<SubSeq(s, from, at - 1)>> \o SplitFrom(s, delim, at + 1)

Split(s, delim) == SplitFrom(s, delim, 1)

\* The order of std::map<std::string, ...> keys and of alphasort.
RECURSIVE StrLess(_, _)
StrLess(a, b) ==
  IF Len(b) = 0 THEN FALSE
  ELSE IF Len(a) = 0 THEN TRUE
  ELSE IF Head(a) = Head(b) THEN StrLess(Tail(a), Tail(b))
  ELSE Ord(Head(a)) < Ord(Head(b))

\* The keys of a std::map in iteration order.
RECURSIVE SortedKeys(_)
SortedKeys(S) ==
  IF S = {} THEN <<>>
  ELSE LET least == CHOOSE k \in S : \A o \in S \ {k} : StrLess(k, o)
       IN  <<least>> \o SortedKeys(S \ {least})

\* std::map::emplace: an existing key keeps its value.
Emplace(m, key, value) ==
  IF key \in DOMAIN m THEN m
  ELSE [k \in DOMAIN m \cup {key} |-> IF k = key THEN value ELSE m[k]]

EmptyMap == [k \in {} |-> 0]

(***************************************************************************)
(* RangeSet (otautil): a sequence of <<start, end>> pairs.                 *)
(***************************************************************************)
RECURSIVE ParseUintFrom(_, _)
ParseUintFrom(s, acc) ==
  IF Len(s) = 0 THEN acc
  ELSE ParseUintFrom(Tail(s), 10 * acc + DigitVal(Head(s)))

\* A token is a non-negative integer when it is a non-empty run of digits.
IsUint(tok) == Len(tok) > 0 /\ \A i \in 1..Len(tok) : IsDigit(Char(tok, i))

ParseUint(tok) == ParseUintFrom(tok, 0)

InvalidRangeSet == [valid |-> FALSE, ranges |-> <<>>]

RangeSetParse_AcceptsAnyPairs(text) ==
  LET pieces == Split(text, ",")
  IN  IF \E i \in 1..Len(pieces) : ~IsUint(pieces[i]) THEN InvalidRangeSet
      ELSE LET num == ParseUint(pieces[1])
           IN  IF num % 2 # 0 \/ Len(pieces) # num + 1 THEN InvalidRangeSet
               ELSE [valid |-> TRUE,
                     ranges |-> [i \in 1..(num \div 2) |->
                                   <<ParseUint(pieces[2 * i]), ParseUint(pieces[2 * i + 1])>>]]

\* RangeSet::Parse: a leading even count, then exactly count integers that
\* form pairs with start < end; anything else is a parse failure.
RangeSetParse(text) ==
  LET pieces == Split(text, ",")
  IN  IF \E i \in 1..Len(pieces) : ~IsUint(pieces[i]) THEN InvalidRangeSet
      ELSE LET num == ParseUint(pieces[1])
           IN  IF num % 2 # 0 \/ Len(pieces) # num + 1 THEN InvalidRangeSet
               ELSE LET pairs == [i \in 1..(num \div 2) |->
                                    <<ParseUint(pieces[2 * i]), ParseUint(pieces[2 * i + 1])>>]
                    IN  IF \E i \in 1..Len(pairs) : pairs[i][1] >= pairs[i][2]
                        THEN InvalidRangeSet
                        ELSE [valid |-> TRUE, ranges |-> pairs]

\* Number of blocks of a sequence of pairs.
RECURSIVE Blocks(_)
Blocks(ranges) ==
  IF ranges = <<>> THEN 0
  ELSE (Head(ranges)[2] - Head(ranges)[1]) + Blocks(Tail(ranges))

\* RangeSet::Split: the pairs are handed out in order, whole, to `groups`
\* groups; a group is closed once it holds its share of the blocks, and the
\* last group takes what remains.
\* The first n blocks of the pairs, the last pair cut where needed.
RECURSIVE FirstBlocks(_, _)
FirstBlocks(ranges, n) ==
  IF n = 0 \/ ranges = <<>> THEN <<>>
  ELSE LET first == Head(ranges)
           size == first[2] - first[1]
       IN  IF size > n THEN <<(<<first[1], first[1] + n>>)>>
           ELSE <<first>> \o FirstBlocks(Tail(ranges), n - size)

\* What is left of the pairs after their first n blocks.
RECURSIVE AfterBlocks(_, _)
AfterBlocks(ranges, n) ==
  IF n = 0 \/ ranges = <<>> THEN ranges
  ELSE LET first == Head(ranges)
           size == first[2] - first[1]
       IN  IF size > n THEN <<(<<first[1] + n, first[2]>>)>> \o Tail(ranges)
           ELSE AfterBlocks(Tail(ranges), n - size)

RECURSIVE SplitPairs_CutsPairs(_, _, _)
SplitPairs_CutsPairs(ranges, groups, share) ==
  IF groups = 1 THEN <<ranges>>
  ELSE <<FirstBlocks(ranges, share)>>
         \o SplitPairs_CutsPairs(AfterBlocks(ranges, share), groups - 1, share)

RECURSIVE SplitPairs(_, _, _)
SplitPairs(ranges, groups, share) ==
  IF groups = 1 THEN <<ranges>>
  ELSE LET fits == {n \in 0..Len(ranges) : Blocks(SubSeq(ranges, 1, n)) >= share}
           take == IF fits = {} THEN Len(ranges)
                   ELSE CHOOSE n \in fits : \A m \in fits : n <= m
       IN  <<SubSeq(ranges, 1, take)>>
             \o SplitPairs(SubSeq(ranges, take + 1, Len(ranges)), groups - 1, share)

RangeSetSplit(ranges, groups) ==
  SplitPairs(ranges, groups, (Blocks(ranges) + groups - 1) \div groups)

\* The decimal text of a non-negative integer.
RECURSIVE UintToString(_)
UintToString(n) ==
  IF n < 10 THEN Char(Digits, n + 1)
  ELSE UintToString(n \div 10) \o Char(Digits, (n % 10) + 1)

\* RangeSet::ToString: the count, then the ends of the pairs, comma separated.
RECURSIVE PairsToString(_)
PairsToString(ranges) ==
  IF ranges = <<>> THEN ""
  ELSE "," \o UintToString(Head(ranges)[1]) \o "," \o UintToString(Head(ranges)[2])
         \o PairsToString(Tail(ranges))

RangeSetToString(ranges) == UintToString(2 * Len(ranges)) \o PairsToString(ranges)

(***************************************************************************)
(* The care map.  A file is a record: access/opens/reads tell whether      *)
(* access(R_OK), open() and ReadFdToString succeed, content is its text,   *)
(* and message is what the protobuf library decodes from the content       *)
(* (parses = FALSE when ParseFromString fails).                            *)
(***************************************************************************)
NoMessage == [parses |-> FALSE, partitions |-> <<>>]

TextFile(text) ==
  [access |-> TRUE, opens |-> TRUE, reads |-> TRUE, content |-> text, message |-> NoMessage]

ProtoFile(text, msg) ==
  [access |-> TRUE, opens |-> TRUE, reads |-> TRUE, content |-> text, message |-> msg]

Partition(name, ranges) == [name |-> name, ranges |-> ranges]

CareMapMessage(parts) == [parses |-> TRUE, partitions |-> parts]

care_map_prefix == "/data/ota_package/care_map"

\* The loop of ParseCareMapPlainText over the pairs of lines, from line i.
RECURSIVE PlainTextPairs(_, _, _)
PlainTextPairs(lines, i, pm) ==
  IF i > Len(lines) THEN [ret |-> TRUE, partition_map |-> pm]
  ELSE LET partition_name == lines[i]
           range_str == lines[i + 1]
           ranges == RangeSetParse(range_str)
       IN  IF StartsWith(partition_name, "/dev/block/")
           THEN [ret |-> FALSE, partition_map |-> pm]
           ELSE IF ~ranges.valid
           THEN [ret |-> FALSE, partition_map |-> pm]
           ELSE PlainTextPairs(lines, i + 2, Emplace(pm, partition_name, ranges.ranges))

ParseCareMapPlainText_AnyEvenCount(content, pm) ==
  LET lines == Split(Trim(content), "\n")
  IN  IF Len(lines) % 2 # 0
      THEN [ret |-> FALSE, partition_map |-> pm]
      ELSE PlainTextPairs(lines, 1, pm)

ParseCareMapPlainText(content, pm) ==
  LET lines == Split(Trim(content), "\n")
  IN  IF Len(lines) # 2 /\ Len(lines) # 4 /\ Len(lines) # 6
      THEN [ret |-> FALSE, partition_map |-> pm]
      ELSE PlainTextPairs(lines, 1, pm)

\* The loop of ParseCareMap over care_map.partitions(), from descriptor i.
RECURSIVE ProtoPartitions(_, _, _)
ProtoPartitions(partitions, i, pm) ==
  IF i > Len(partitions)
  THEN [ret |-> pm # EmptyMap, partition_map |-> pm]
  ELSE LET partition == partitions[i]
           ranges == RangeSetParse(partition.ranges)
       IN  IF partition.name = "" THEN [ret |-> FALSE, partition_map |-> pm]
           ELSE IF partition.ranges = "" THEN [ret |-> FALSE, partition_map |-> pm]
           ELSE IF ~ranges.valid THEN [ret |-> FALSE, partition_map |-> pm]
           ELSE ProtoPartitions(partitions, i + 1, Emplace(pm, partition.name, ranges.ranges))

CareMapName_PrefersText(file_name, files) ==
  IF file_name # "" THEN file_name
  ELSE IF care_map_prefix \o ".txt" \in DOMAIN files
          /\ files[care_map_prefix \o ".txt"].access
       THEN care_map_prefix \o ".txt"
       ELSE care_map_prefix \o ".pb"

\* The file ParseCareMap opens.
CareMapName(file_name, files) ==
  IF file_name # "" THEN file_name
  ELSE IF care_map_prefix \o ".pb" \notin DOMAIN files
          \/ ~files[care_map_prefix \o ".pb"].access
       THEN care_map_prefix \o ".txt"
       ELSE care_map_prefix \o ".pb"

\* ParseCareMap: partition_map_ is cleared first, whatever it held.
ParseCareMap(file_name, files) ==
  LET care_map_name == CareMapName(file_name, files)
      failed == [ret |-> FALSE, partition_map |-> EmptyMap]
  IN  IF care_map_name \notin DOMAIN files \/ ~files[care_map_name].opens THEN failed
      ELSE IF ~files[care_map_name].reads THEN failed
      ELSE IF files[care_map_name].content = "" THEN failed
      ELSE IF EndsWith(care_map_name, ".txt")
           THEN ParseCareMapPlainText(files[care_map_name].content, EmptyMap)
      ELSE IF ~files[care_map_name].message.parses THEN failed
      ELSE ProtoPartitions(files[care_map_name].message.partitions, 1, EmptyMap)

(***************************************************************************)
(* /sys/block: scans tells whether scandir succeeds, dir is the set of     *)
(* entry names, and names maps an entry to the file <entry>/dm/name.       *)
(***************************************************************************)
dm_name_filter(d_name) == StartsWith(d_name, "dm-")

\* namelist[n], namelist[n-1], ... are emplaced in that order.
RECURSIVE EmplaceDown_KeepsUnreadable(_, _, _, _)
EmplaceDown_KeepsUnreadable(namelist, names, n, dm_block_devices) ==
  IF n = 0 THEN dm_block_devices
  ELSE LET d_name == namelist[n]
           trimmed == Trim(names[d_name].content)
           dm_block_name == IF trimmed = "vroot" THEN "system" ELSE trimmed
       IN  EmplaceDown_KeepsUnreadable(namelist, names, n - 1,
             Emplace(dm_block_devices, dm_block_name, "/dev/block/" \o d_name))

RECURSIVE EmplaceDown_NoRename(_, _, _, _)
EmplaceDown_NoRename(namelist, names, n, dm_block_devices) ==
  IF n = 0 THEN dm_block_devices
  ELSE LET d_name == namelist[n]
           readable == d_name \in DOMAIN names /\ names[d_name].opens /\ names[d_name].reads
           dm_block_name == Trim(names[d_name].content)
       IN  IF ~readable
           THEN EmplaceDown_NoRename(namelist, names, n - 1, dm_block_devices)
           ELSE EmplaceDown_NoRename(namelist, names, n - 1,
                  Emplace(dm_block_devices, dm_block_name, "/dev/block/" \o d_name))

RECURSIVE EmplaceDown(_, _, _, _)
EmplaceDown(namelist, names, n, dm_block_devices) ==
  IF n = 0 THEN dm_block_devices
  ELSE LET d_name == namelist[n]
           readable == d_name \in DOMAIN names /\ names[d_name].opens /\ names[d_name].reads
           trimmed == Trim(names[d_name].content)
           dm_block_name == IF trimmed = "vroot" THEN "system" ELSE trimmed
       IN  IF ~readable
           THEN EmplaceDown(namelist, names, n - 1, dm_block_devices)
           ELSE EmplaceDown(namelist, names, n - 1,
                            Emplace(dm_block_devices, dm_block_name, "/dev/block/" \o d_name))

FindDmPartitions(sys) ==
  LET namelist == SortedKeys({d \in sys.dir : dm_name_filter(d)})
  IN  IF ~sys.scans THEN EmptyMap
      ELSE IF Len(namelist) = 0 THEN EmptyMap
      ELSE EmplaceDown(namelist, sys.names, Len(namelist), EmptyMap)

(***************************************************************************)
(* Block devices.  A device is a record: opens tells whether open()        *)
(* succeeds, size is its size in blocks, bad is the set of blocks whose    *)
(* read fails (dm-verity in eio mode fails the read of a corrupt block).   *)
(***************************************************************************)
Device(opens, size, bad) == [opens |-> opens, size |-> size, bad |-> bad]

\* lseek64(fd, offset, SEEK_SET) on a block device fails past its end.
SeekOk(dev, offset) == offset <= dev.size * kBlockSize

\* ReadFully(fd, buf, to_read) at file offset off: every byte must be read.
ReadOk(dev, off, to_read) ==
  \A b \in (off \div kBlockSize)..((off + to_read - 1) \div kBlockSize) :
    b < dev.size /\ b \notin dev.bad

Min(a, b) == IF a < b THEN a ELSE b

\* size_t thread_num = std::thread::hardware_concurrency() ?: 4;
ThreadNum(hardware_concurrency) ==
  IF hardware_concurrency # 0 THEN hardware_concurrency ELSE kDefaultThreads

(***************************************************************************)
(* The environments the runs are checked in.                               *)
(***************************************************************************)
BoolResult == {"FALSE", "TRUE", "INVALID_SLOT"}

VerityModes ==
  {"", "enforcing", "Enforcing", "eio", "EIO", "disabled", "Disabled", "logging"}

pb == care_map_prefix \o ".pb"
txt == care_map_prefix \o ".txt"

GoodText == "system\n4,0,10,20,30\n"

TextContents ==
  { GoodText,
    "system\n2,0,1025\nvendor\n2,5,6\n",
    "/dev/block/system\n2,0,1\n",
    "system\n3,1,2,3\n",
    "system\n",
    "" }

Messages ==
  { NoMessage,
    CareMapMessage(<<>>),
    CareMapMessage(<<Partition("vendor", "4,0,10,20,30")>>),
    CareMapMessage(<<Partition("", "2,0,1")>>),
    CareMapMessage(<<Partition("vendor", "")>>),
    CareMapMessage(<<Partition("vendor", "2,0,1"), Partition("system", "2,7")>>) }

OneFile(path, file) == [p \in {path} |-> file]

TwoFiles(file_pb, file_txt) == [p \in {pb, txt} |-> IF p = pb THEN file_pb ELSE file_txt]

CareMapFiles ==
  {EmptyMap}
    \cup {OneFile(txt, TextFile(c)) : c \in TextContents}
    \cup {OneFile(txt, [TextFile(GoodText) EXCEPT !.opens = FALSE]),
          OneFile(txt, [TextFile(GoodText) EXCEPT !.reads = FALSE])}
    \cup {TwoFiles(ProtoFile("proto", m), TextFile(GoodText)) : m \in Messages}
    \cup {TwoFiles(ProtoFile("", NoMessage), TextFile(GoodText)),
          TwoFiles([ProtoFile("proto", NoMessage) EXCEPT !.access = FALSE], TextFile(GoodText)),
          TwoFiles([ProtoFile("proto", NoMessage) EXCEPT !.opens = FALSE], TextFile(GoodText))}

NameFiles ==
  { TextFile("system\n"), TextFile("vroot\n"), TextFile("vendor\n"),
    [TextFile("system\n") EXCEPT !.opens = FALSE] }

SysBlocks ==
  { [scans |-> FALSE, dir |-> {}, names |-> EmptyMap],
    [scans |-> TRUE, dir |-> {"sda"}, names |-> EmptyMap] }
    \cup {[scans |-> TRUE, dir |-> {"sda", "dm-0"}, names |-> n] :
            n \in [{"dm-0"} -> NameFiles]}
    \cup {[scans |-> TRUE, dir |-> {"sda", "dm-0", "dm-1"}, names |-> n] :
            n \in [{"dm-0", "dm-1"} -> NameFiles]}

GoodDevice == Device(TRUE, 2048, {})

DeviceStates ==
  { GoodDevice,
    Device(FALSE, 2048, {}),
    Device(TRUE, 2048, {25}),
    Device(TRUE, 2048, {15}),
    Device(TRUE, 2048, {1024}),
    Device(TRUE, 25, {}),
    Device(TRUE, 8, {}) }

Range(f) == {f[x] : x \in DOMAIN f}

\* The devices under the given paths: at most one of them is faulty.
DeviceSets(paths) ==
  {devs \in [paths -> DeviceStates] :
     \A p, q \in paths : devs[p] # GoodDevice /\ devs[q] # GoodDevice => p = q}

(***************************************************************************)
(* The state of one run of update_verifier.                                *)
(***************************************************************************)
VARIABLES
  pc,                 \* where the main thread is in update_verifier
  calls,              \* the calls made to the outside, in order
  exit,               \* <<>> while running, <<code>> once main has returned
  results,            \* what ParseCareMap, VerifyPartitions, markBootSuccessful returned
  module,             \* sp<IBootControl> module
  is_successful,      \* result of isSlotMarkedSuccessful
  verity_mode,        \* ro.boot.veritymode
  partition_map_,     \* UpdateVerifier::partition_map_
  care_files,         \* the files under /data/ota_package
  sys_block,          \* the content of /sys/block
  devices,            \* the block devices under /dev/block
  hardware_concurrency,
  dm_block_devices,   \* VerifyPartitions: result of FindDmPartitions
  part_idx,           \* VerifyPartitions: position in partition_map_
  dm_block_device,    \* ReadBlocks: the device it was called with
  groups,             \* ReadBlocks: the groups of Split
  threads,            \* ReadBlocks: the workers launched
  join_idx,           \* ReadBlocks: the next worker to join
  ret,                \* ReadBlocks: ret
  reads               \* the reads that succeeded: <<device, first block, last block>>

vars == <<pc, calls, exit, results, module, is_successful, verity_mode, partition_map_,
          care_files, sys_block, devices, hardware_concurrency, dm_block_devices,
          part_idx, dm_block_device, groups, threads, join_idx, ret, reads>>

orchestrator_vars == <<module, is_successful, verity_mode, partition_map_, care_files>>
discovery_vars == <<sys_block, devices, hardware_concurrency, dm_block_devices>>
readblocks_vars == <<part_idx, dm_block_device, groups, threads, join_idx, ret, reads>>

NoResults == [parse |-> <<>>, verify |-> <<>>, mark |-> <<>>, reboot |-> <<>>]

Init ==
  /\ pc = "getService"
  /\ calls = <<>>
  /\ exit = <<>>
  /\ results = NoResults
  /\ module = "nullptr"
  /\ is_successful = "FALSE"
  /\ verity_mode = ""
  /\ partition_map_ = EmptyMap
  /\ care_files = EmptyMap
  /\ sys_block = [scans |-> FALSE, dir |-> {}, names |-> EmptyMap]
  /\ devices = EmptyMap
  /\ hardware_concurrency = 0
  /\ dm_block_devices = EmptyMap
  /\ part_idx = 0
  /\ dm_block_device = ""
  /\ groups = <<>>
  /\ threads = <<>>
  /\ join_idx = 0
  /\ ret = TRUE
  /\ reads = {}

(***************************************************************************)
(* update_verifier()                                                       *)
(***************************************************************************)
\* if (module == nullptr) return reboot_device();
AfterGetService_Unchecked(service) == "isSlotMarkedSuccessful"

AfterGetService(service) ==
  IF service = "nullptr" THEN "reboot_device" ELSE "isSlotMarkedSuccessful"

\* sp<IBootControl> module = IBootControl::getService();
GetService ==
  /\ pc = "getService"
  /\ \E service \in {"nullptr", "IBootControl"} :
       /\ module' = service
       /\ pc' = AfterGetService(service)
  /\ calls' = Append(calls, "getService")
  /\ UNCHANGED <<exit, results, is_successful, verity_mode, partition_map_, care_files,
                 discovery_vars, readblocks_vars>>

\* if (is_successful == BoolResult::FALSE) { ... } return 0;
AfterSlot_VerifiesAgain(result) == "GetProperty"

AfterSlot_MarksAgain(result) ==
  IF result = "FALSE" THEN "GetProperty" ELSE "markBootSuccessful"

AfterSlot(result) == IF result = "FALSE" THEN "GetProperty" ELSE "leave"

\* getCurrentSlot, isSlotMarkedSuccessful and the test of is_successful.
IsSlotMarkedSuccessful ==
  /\ pc = "isSlotMarkedSuccessful"
  /\ \E r \in BoolResult :
       /\ is_successful' = r
       /\ pc' = AfterSlot(r)
  /\ calls' = calls \o <<"getCurrentSlot", "isSlotMarkedSuccessful">>
  /\ UNCHANGED <<exit, results, module, verity_mode, partition_map_, care_files,
                 discovery_vars, readblocks_vars>>

\* The if/else chain over ro.boot.veritymode.
VerityDecision_DisabledVerifies(mode) ==
  IF mode = "" THEN "skip"
  ELSE IF EqualsIgnoreCase(mode, "eio") THEN "verify"
  ELSE IF EqualsIgnoreCase(mode, "disabled") THEN "verify"
  ELSE IF mode # "enforcing" THEN "reboot"
  ELSE "verify"

VerityDecision_EioSkips(mode) ==
  IF mode = "" THEN "skip"
  ELSE IF EqualsIgnoreCase(mode, "eio") THEN "skip"
  ELSE IF EqualsIgnoreCase(mode, "disabled") THEN "skip"
  ELSE IF mode # "enforcing" THEN "reboot"
  ELSE "verify"

VerityDecision_AnyCaseEnforcing(mode) ==
  IF mode = "" THEN "skip"
  ELSE IF EqualsIgnoreCase(mode, "eio") THEN "verify"
  ELSE IF EqualsIgnoreCase(mode, "disabled") THEN "skip"
  ELSE IF ~EqualsIgnoreCase(mode, "enforcing") THEN "reboot"
  ELSE "verify"

VerityDecision(mode) ==
  IF mode = "" THEN "skip"
  ELSE IF EqualsIgnoreCase(mode, "eio") THEN "verify"
  ELSE IF EqualsIgnoreCase(mode, "disabled") THEN "skip"
  ELSE IF mode # "enforcing" THEN "reboot"
  ELSE "verify"

GetProperty ==
  /\ pc = "GetProperty"
  /\ \E mode \in VerityModes :
       /\ verity_mode' = mode
       /\ pc' = CASE VerityDecision(mode) = "reboot" -> "reboot_device"
                  [] VerityDecision(mode) = "skip"   -> "markBootSuccessful"
                  [] VerityDecision(mode) = "verify" -> "ParseCareMap"
  /\ calls' = Append(calls, "GetProperty")
  /\ UNCHANGED <<exit, results, module, is_successful, partition_map_, care_files,
                 discovery_vars, readblocks_vars>>

\* if (!verifier.ParseCareMap()) { LOG } else if (...VerifyPartitions())
AfterParse_RebootsOnFailure(parsed) ==
  IF parsed THEN "VerifyPartitions" ELSE "reboot_device"

AfterParse(parsed) == IF parsed THEN "VerifyPartitions" ELSE "markBootSuccessful"

\* else if (!verifier.VerifyPartitions()) return reboot_device();
AfterVerify_IgnoresFailure(verified) == "markBootSuccessful"

AfterVerify(verified) == IF verified THEN "markBootSuccessful" ELSE "reboot_device"

\* if (!cr.success) return reboot_device();
AfterMark_Unchecked(success) == "leave"

AfterMark_RebootsAnyway(success) == "reboot_device"

AfterMark(success) == IF success THEN "leave" ELSE "reboot_device"

\* UpdateVerifier verifier; if (!verifier.ParseCareMap()) ...
DoParseCareMap ==
  /\ pc = "ParseCareMap"
  /\ \E files \in CareMapFiles :
       LET parsed == ParseCareMap("", files)
       IN  /\ care_files' = files
           /\ partition_map_' = parsed.partition_map
           /\ results' = [results EXCEPT !.parse = <<parsed.ret>>]
           /\ pc' = AfterParse(parsed.ret)
  /\ calls' = Append(calls, "ParseCareMap")
  /\ UNCHANGED <<exit, module, is_successful, verity_mode, discovery_vars, readblocks_vars>>

\* VerifyPartitions up to its loop: FindDmPartitions and the test for empty.
VerifyPartitions ==
  /\ pc = "VerifyPartitions"
  /\ \E sys \in SysBlocks, hw \in 0..MaxHw :
       LET found == FindDmPartitions(sys)
       IN  /\ sys_block' = sys
           /\ hardware_concurrency' = hw
           /\ dm_block_devices' = found
           /\ \E devs \in DeviceSets(Range(found)) : devices' = devs
           /\ IF found = EmptyMap
              THEN /\ results' = [results EXCEPT !.verify = <<FALSE>>]
                   /\ pc' = AfterVerify(FALSE)
                   /\ part_idx' = part_idx
              ELSE /\ results' = results
                   /\ pc' = "partition"
                   /\ part_idx' = 1
  /\ calls' = Append(calls, "VerifyPartitions")
  /\ UNCHANGED <<exit, orchestrator_vars, dm_block_device, groups, threads,
                 join_idx, ret, reads>>

\* One turn of the loop of VerifyPartitions, up to the call of ReadBlocks
\* and the Split in it.
NextPartition_SkipsMissing ==
  /\ pc = "partition"
  /\ LET names == SortedKeys(DOMAIN partition_map_)
     IN  IF part_idx > Len(names)
         THEN /\ results' = [results EXCEPT !.verify = <<TRUE>>]
              /\ pc' = AfterVerify(TRUE)
              /\ UNCHANGED <<part_idx, dm_block_device, groups, threads>>
         ELSE IF names[part_idx] \notin DOMAIN dm_block_devices
         THEN /\ part_idx' = part_idx + 1
              /\ UNCHANGED <<results, pc, dm_block_device, groups, threads>>
         ELSE /\ dm_block_device' = dm_block_devices[names[part_idx]]
              /\ groups' = RangeSetSplit(partition_map_[names[part_idx]],
                                         ThreadNum(hardware_concurrency))
              /\ threads' = <<>>
              /\ pc' = "launch"
              /\ UNCHANGED <<results, part_idx>>
  /\ UNCHANGED <<calls, exit, orchestrator_vars, discovery_vars, join_idx, ret, reads>>

NextPartition ==
  /\ pc = "partition"
  /\ LET names == SortedKeys(DOMAIN partition_map_)
     IN  IF part_idx > Len(names)
         THEN /\ results' = [results EXCEPT !.verify = <<TRUE>>]
              /\ pc' = AfterVerify(TRUE)
              /\ UNCHANGED <<dm_block_device, groups, threads>>
         ELSE IF names[part_idx] \notin DOMAIN dm_block_devices
         THEN /\ results' = [results EXCEPT !.verify = <<FALSE>>]
              /\ pc' = AfterVerify(FALSE)
              /\ UNCHANGED <<dm_block_device, groups, threads>>
         ELSE /\ dm_block_device' = dm_block_devices[names[part_idx]]
              /\ groups' = RangeSetSplit(partition_map_[names[part_idx]],
                                         ThreadNum(hardware_concurrency))
              /\ threads' = <<>>
              /\ pc' = "launch"
              /\ results' = results
  /\ UNCHANGED <<calls, exit, orchestrator_vars, discovery_vars, part_idx,
                 join_idx, ret, reads>>

\* threads.emplace_back(std::async(std::launch::async, thread_func));
Launch_SameGroup ==
  /\ pc = "launch"
  /\ threads' = Append(threads, [pc |-> "open", group |-> groups[1],
                                 range |-> 1, off |-> 0, remain |-> 0,
                                 result |-> FALSE])
  /\ IF Len(threads') = Len(groups)
     THEN pc' = "join" /\ ret' = TRUE /\ join_idx' = 1
     ELSE UNCHANGED <<pc, ret, join_idx>>
  /\ UNCHANGED <<calls, exit, results, orchestrator_vars, discovery_vars,
                 part_idx, dm_block_device, groups, reads>>

Launch ==
  /\ pc = "launch"
  /\ threads' = Append(threads, [pc |-> "open", group |-> groups[Len(threads) + 1],
                                 range |-> 1, off |-> 0, remain |-> 0,
                                 result |-> FALSE])
  /\ IF Len(threads') = Len(groups)
     THEN pc' = "join" /\ ret' = TRUE /\ join_idx' = 1
     ELSE UNCHANGED <<pc, ret, join_idx>>
  /\ UNCHANGED <<calls, exit, results, orchestrator_vars, discovery_vars,
                 part_idx, dm_block_device, groups, reads>>

Finish(thread, result) == [thread EXCEPT !.pc = "done", !.result = result]

\* thread_func: open(dm_block_device, O_RDONLY)
WorkerOpen(w) ==
  /\ threads[w].pc = "open"
  /\ threads' = [threads EXCEPT ![w] =
       IF ~devices[dm_block_device].opens THEN Finish(@, FALSE)
       ELSE IF @.group = <<>> THEN Finish(@, TRUE)
       ELSE [@ EXCEPT !.pc = "lseek64"]]
  /\ UNCHANGED <<pc, calls, exit, results, orchestrator_vars, discovery_vars,
                 part_idx, dm_block_device, groups, join_idx, ret, reads>>

\* thread_func: lseek64 to the start of the range, and remain
WorkerSeek_SharedDescriptor(w) ==
  /\ threads[w].pc = "lseek64"
  /\ LET range_start == threads[w].group[threads[w].range][1]
         range_end == threads[w].group[threads[w].range][2]
     IN  threads' = [v \in 1..Len(threads) |->
           IF v # w
           THEN IF threads[v].pc = "ReadFully"
                THEN [threads[v] EXCEPT !.off = range_start * kBlockSize]
                ELSE threads[v]
           ELSE IF ~SeekOk(devices[dm_block_device], range_start * kBlockSize)
           THEN Finish(threads[w], FALSE)
           ELSE [threads[w] EXCEPT !.pc = "ReadFully",
                                   !.off = range_start * kBlockSize,
                                   !.remain = (range_end - range_start) * kBlockSize]]
  /\ UNCHANGED <<pc, calls, exit, results, orchestrator_vars, discovery_vars,
                 part_idx, dm_block_device, groups, join_idx, ret, reads>>

WorkerSeek(w) ==
  /\ threads[w].pc = "lseek64"
  /\ LET range_start == threads[w].group[threads[w].range][1]
         range_end == threads[w].group[threads[w].range][2]
     IN  threads' = [threads EXCEPT ![w] =
           IF ~SeekOk(devices[dm_block_device], range_start * kBlockSize)
           THEN Finish(@, FALSE)
           ELSE [@ EXCEPT !.pc = "ReadFully",
                          !.off = range_start * kBlockSize,
                          !.remain = (range_end - range_start) * kBlockSize]]
  /\ UNCHANGED <<pc, calls, exit, results, orchestrator_vars, discovery_vars,
                 part_idx, dm_block_device, groups, join_idx, ret, reads>>

\* thread_func: one turn of while (remain > 0)
WorkerRead_IgnoresFailure(w) ==
  /\ threads[w].pc = "ReadFully"
  /\ LET t == threads[w]
         to_read == Min(t.remain, kChunkBlocks * kBlockSize)
         remain == t.remain - to_read
     IN  /\ reads' = IF ReadOk(devices[dm_block_device], t.off, to_read)
                     THEN reads \cup {<<dm_block_device, t.off \div kBlockSize,
                                        (t.off + to_read - 1) \div kBlockSize>>}
                     ELSE reads
         /\ threads' = [threads EXCEPT ![w] =
               IF remain > 0
               THEN [@ EXCEPT !.off = t.off + to_read, !.remain = remain]
               ELSE IF t.range = Len(t.group)
               THEN Finish([@ EXCEPT !.off = t.off + to_read, !.remain = remain], TRUE)
               ELSE [@ EXCEPT !.pc = "lseek64", !.range = t.range + 1,
                              !.off = t.off + to_read, !.remain = remain]]
  /\ UNCHANGED <<pc, calls, exit, results, orchestrator_vars, discovery_vars,
                 part_idx, dm_block_device, groups, join_idx, ret>>

WorkerRead_Unchunked(w) ==
  /\ threads[w].pc = "ReadFully"
  /\ LET t == threads[w]
         to_read == t.remain
         remain == t.remain - to_read
     IN  IF ~ReadOk(devices[dm_block_device], t.off, to_read)
         THEN /\ threads' = [threads EXCEPT ![w] = Finish(@, FALSE)]
              /\ reads' = reads
         ELSE /\ reads' = reads \cup {<<dm_block_device, t.off \div kBlockSize,
                                        (t.off + to_read - 1) \div kBlockSize>>}
              /\ threads' = [threads EXCEPT ![w] =
                   IF t.range = Len(t.group)
                   THEN Finish([@ EXCEPT !.off = t.off + to_read, !.remain = remain], TRUE)
                   ELSE [@ EXCEPT !.pc = "lseek64", !.range = t.range + 1,
                                  !.off = t.off + to_read, !.remain = remain]]
  /\ UNCHANGED <<pc, calls, exit, results, orchestrator_vars, discovery_vars,
                 part_idx, dm_block_device, groups, join_idx, ret>>

WorkerRead(w) ==
  /\ threads[w].pc = "ReadFully"
  /\ LET t == threads[w]
         to_read == Min(t.remain, kChunkBlocks * kBlockSize)
         remain == t.remain - to_read
     IN  IF ~ReadOk(devices[dm_block_device], t.off, to_read)
         THEN /\ threads' = [threads EXCEPT ![w] = Finish(@, FALSE)]
              /\ reads' = reads
         ELSE /\ reads' = reads \cup {<<dm_block_device, t.off \div kBlockSize,
                                        (t.off + to_read - 1) \div kBlockSize>>}
              /\ threads' = [threads EXCEPT ![w] =
                   IF remain > 0
                   THEN [@ EXCEPT !.off = t.off + to_read, !.remain = remain]
                   ELSE IF t.range = Len(t.group)
                   THEN Finish([@ EXCEPT !.off = t.off + to_read, !.remain = remain], TRUE)
                   ELSE [@ EXCEPT !.pc = "lseek64", !.range = t.range + 1,
                                  !.off = t.off + to_read, !.remain = remain]]
  /\ UNCHANGED <<pc, calls, exit, results, orchestrator_vars, discovery_vars,
                 part_idx, dm_block_device, groups, join_idx, ret>>

\* ret = t.get() && ret;
Combine_LastOnly(result, so_far) == result

Combine(result, so_far) == result /\ so_far

\* One turn of the loop over threads; after the last one ReadBlocks returns
\* to the loop of VerifyPartitions.
Join_ReturnsOnFirstFailure ==
  /\ pc = "join"
  /\ threads[join_idx].pc = "done"
  /\ ret' = Combine(threads[join_idx].result, ret)
  /\ IF join_idx < Len(threads) /\ ret'
     THEN /\ join_idx' = join_idx + 1
          /\ UNCHANGED <<pc, results, part_idx>>
     ELSE /\ join_idx' = join_idx
          /\ IF ~ret'
             THEN /\ results' = [results EXCEPT !.verify = <<FALSE>>]
                  /\ pc' = AfterVerify(FALSE)
                  /\ part_idx' = part_idx
             ELSE /\ results' = results
                  /\ pc' = "partition"
                  /\ part_idx' = part_idx + 1
  /\ UNCHANGED <<calls, exit, orchestrator_vars, discovery_vars, dm_block_device,
                 groups, threads, reads>>

Join_WaitsForFirstOnly ==
  /\ pc = "join"
  /\ threads[1].pc = "done"
  /\ ret' = Combine(threads[1].result, ret)
  /\ join_idx' = join_idx
  /\ IF ~ret'
     THEN /\ results' = [results EXCEPT !.verify = <<FALSE>>]
          /\ pc' = AfterVerify(FALSE)
          /\ part_idx' = part_idx
     ELSE /\ results' = results
          /\ pc' = "partition"
          /\ part_idx' = part_idx + 1
  /\ UNCHANGED <<calls, exit, orchestrator_vars, discovery_vars, dm_block_device,
                 groups, threads, reads>>

Join ==
  /\ pc = "join"
  /\ threads[join_idx].pc = "done"
  /\ ret' = Combine(threads[join_idx].result, ret)
  /\ IF join_idx < Len(threads)
     THEN /\ join_idx' = join_idx + 1
          /\ UNCHANGED <<pc, results, part_idx>>
     ELSE /\ join_idx' = join_idx
          /\ IF ~ret'
             THEN /\ results' = [results EXCEPT !.verify = <<FALSE>>]
                  /\ pc' = AfterVerify(FALSE)
                  /\ part_idx' = part_idx
             ELSE /\ results' = results
                  /\ pc' = "partition"
                  /\ part_idx' = part_idx + 1
  /\ UNCHANGED <<calls, exit, orchestrator_vars, discovery_vars, dm_block_device,
                 groups, threads, reads>>

\* module->markBootSuccessful(...); if (!cr.success) return reboot_device();
MarkBootSuccessful ==
  /\ pc = "markBootSuccessful"
  /\ \E success \in BOOLEAN :
       /\ results' = [results EXCEPT !.mark = <<success>>]
       /\ pc' = AfterMark(success)
  /\ calls' = Append(calls, "markBootSuccessful")
  /\ UNCHANGED <<exit, orchestrator_vars, discovery_vars, readblocks_vars>>

\* reboot_device(): return -1 when android_reboot fails, else
\* while (true) pause(); its caller returns what it returns.
RebootOutcome_NoPause(rebooting) == [pc |-> "returned", exit |-> <<-1>>]

RebootOutcome(rebooting) ==
  IF rebooting THEN [pc |-> "pause", exit |-> <<>>]
  ELSE [pc |-> "returned", exit |-> <<-1>>]

RebootDevice ==
  /\ pc = "reboot_device"
  /\ \E rebooting \in BOOLEAN :
       /\ results' = [results EXCEPT !.reboot = <<rebooting>>]
       /\ pc' = RebootOutcome(rebooting).pc
       /\ exit' = RebootOutcome(rebooting).exit
  /\ calls' = Append(calls, "android_reboot")
  /\ UNCHANGED <<orchestrator_vars, discovery_vars, readblocks_vars>>

\* LOG(INFO) << "Leaving update_verifier."; return 0;
Leave ==
  /\ pc = "leave"
  /\ pc' = "returned"
  /\ exit' = <<0>>
  /\ UNCHANGED <<calls, results, orchestrator_vars, discovery_vars, readblocks_vars>>

Next ==
  \/ GetService
  \/ IsSlotMarkedSuccessful
  \/ GetProperty
  \/ DoParseCareMap
  \/ VerifyPartitions
  \/ NextPartition
  \/ Launch
  \/ \E w \in 1..Len(threads) : WorkerOpen(w)
  \/ \E w \in 1..Len(threads) : WorkerSeek(w)
  \/ \E w \in 1..Len(threads) : WorkerRead(w)
  \/ Join
  \/ MarkBootSuccessful
  \/ RebootDevice
  \/ Leave

Spec == Init /\ [][Next]_vars

(***************************************************************************)
(* The verification of one partition, for every range set within the       *)
(* bounds: the run has parsed a care_map.pb that names "system" with that  *)
(* range set, FindDmPartitions has found /dev/block/dm-0 for it, and       *)
(* VerifyPartitions is at the head of its loop.                            *)
(***************************************************************************)
Pairs == {p \in (0..MaxBlock) \X (0..MaxBlock) : p[1] < p[2]}

\* Sequences of pairs in increasing order that do not overlap.
RangeSets ==
  UNION {{rs \in [1..n -> Pairs] : \A i \in 1..(n - 1) : rs[i][2] <= rs[i + 1][1]} :
           n \in 0..MaxPairs}

VerifyDevices ==
  {GoodDevice, Device(FALSE, 2048, {}), Device(TRUE, 2, {})}
    \cup {Device(TRUE, 2048, {b}) : b \in 0..(MaxBlock - 1)}

VerifyInit ==
  /\ pc = "partition"
  /\ calls = <<"getService", "getCurrentSlot", "isSlotMarkedSuccessful", "GetProperty",
               "ParseCareMap", "VerifyPartitions">>
  /\ exit = <<>>
  /\ results = [NoResults EXCEPT !.parse = <<TRUE>>]
  /\ module = "IBootControl"
  /\ is_successful = "FALSE"
  /\ verity_mode = "enforcing"
  /\ \E rs \in RangeSets :
       /\ care_files = OneFile(pb, ProtoFile("proto",
            CareMapMessage(<<Partition("system", RangeSetToString(rs))>>)))
       /\ partition_map_ = ParseCareMap("", care_files).partition_map
  /\ sys_block = [scans |-> TRUE, dir |-> {"sda", "dm-0"},
                  names |-> [d \in {"dm-0"} |-> TextFile("system\n")]]
  /\ dm_block_devices = FindDmPartitions(sys_block)
  /\ devices \in [Range(dm_block_devices) -> VerifyDevices]
  /\ hardware_concurrency \in 0..MaxHw
  /\ part_idx = 1
  /\ dm_block_device = ""
  /\ groups = <<>>
  /\ threads = <<>>
  /\ join_idx = 0
  /\ ret = TRUE
  /\ reads = {}

VerifyNext ==
  \/ NextPartition
  \/ Launch
  \/ \E w \in 1..Len(threads) : WorkerOpen(w)
  \/ \E w \in 1..Len(threads) : WorkerSeek(w)
  \/ \E w \in 1..Len(threads) : WorkerRead(w)
  \/ Join

VerifySpec == VerifyInit /\ [][VerifyNext]_vars

(***************************************************************************)
(* Vocabulary of the properties.                                           *)
(***************************************************************************)
Called(name) == \E i \in 1..Len(calls) : calls[i] = name

\* Position of the first call of that name.
CallIndex(name) ==
  CHOOSE i \in 1..Len(calls) : calls[i] = name /\ \A j \in 1..(i - 1) : calls[j] # name

\* reboot_device() has been entered, or is the next thing the run does.
RebootRequested == pc = "reboot_device" \/ Called("android_reboot")

\* markBootSuccessful has been invoked, or is the next thing the run does.
MarkAttempted == pc = "markBootSuccessful" \/ Called("markBootSuccessful")

SlotQueried == Called("isSlotMarkedSuccessful")

ModeRead == Called("GetProperty")

\* The blocks of a sequence of pairs.
BlocksOf(ranges) ==
  UNION {ranges[i][1]..(ranges[i][2] - 1) : i \in 1..Len(ranges)}

\* Some worker completed a successful read of block b of that device.
ReadDone(device, b) ==
  \E r \in reads : r[1] = device /\ r[2] <= b /\ b <= r[3]

\* The device cannot deliver block b.
Unreadable(dev, b) == b \in dev.bad \/ b >= dev.size

(***************************************************************************)
(* C1: whenever VerifyPartitions has returned false, markBootSuccessful    *)
(* has not been invoked and a reboot is requested.                         *)
(***************************************************************************)
C1_VerifyFailureReboots ==
  results.verify = <<FALSE>> =>
    /\ results.parse = <<TRUE>>
    /\ ~Called("markBootSuccessful")
    /\ pc # "markBootSuccessful"
    /\ RebootRequested

C1_Witness ==
  /\ results.verify = <<FALSE>>
  /\ Called("android_reboot")
  /\ reads # {}

(***************************************************************************)
(* C2: no false pass.  VerifyPartitions returns true only if every block   *)
(* of every range set of the manifest was read successfully by a worker on *)
(* the partition's mapped device; a cared block whose read fails makes it  *)
(* return false; and it returns false only for a cause inside the manifest:*)
(* no device, a device that does not open, or a cared block that cannot be *)
(* read - never for a bad block outside all cared ranges.                  *)
(***************************************************************************)
C2_NoFalsePass ==
  /\ results.verify = <<TRUE>> =>
       \A name \in DOMAIN partition_map_ :
         /\ name \in DOMAIN dm_block_devices
         /\ \A b \in BlocksOf(partition_map_[name]) :
              ReadDone(dm_block_devices[name], b)
  /\ results.verify # <<>> =>
       \A name \in DOMAIN partition_map_ \cap DOMAIN dm_block_devices :
         (\E b \in BlocksOf(partition_map_[name]) :
            b \in devices[dm_block_devices[name]].bad)
           => results.verify = <<FALSE>>
  /\ results.verify = <<FALSE>> =>
       \/ dm_block_devices = EmptyMap
       \/ \E name \in DOMAIN partition_map_ :
            \/ name \notin DOMAIN dm_block_devices
            \/ ~devices[dm_block_devices[name]].opens
            \/ \E b \in BlocksOf(partition_map_[name]) :
                 Unreadable(devices[dm_block_devices[name]], b)

\* The manifest {"system": "4,0,10,20,30"} passes on a device whose only
\* bad block, 15, is outside the cared ranges.
C2_Witness ==
  /\ results.verify = <<TRUE>>
  /\ partition_map_ = [n \in {"system"} |-> <<<<0, 10>>, <<20, 30>>>>]
  /\ devices[dm_block_devices["system"]].bad = {15}

(***************************************************************************)
(* C3: when isSlotMarkedSuccessful reports TRUE, the run parses no care    *)
(* map, launches no worker and reads no block, requests no reboot, and the *)
(* only thing it does is to return 0.                                      *)
(***************************************************************************)
C3_AlreadySuccessfulDoesNothing ==
  (SlotQueried /\ is_successful = "TRUE") =>
    /\ ~Called("ParseCareMap")
    /\ ~Called("VerifyPartitions")
    /\ threads = <<>>
    /\ reads = {}
    /\ ~RebootRequested
    /\ pc \in {"leave", "returned"}
    /\ pc = "returned" => exit = <<0>>

C3_Witness ==
  /\ is_successful = "TRUE"
  /\ exit = <<0>>
  /\ calls = <<"getService", "getCurrentSlot", "isSlotMarkedSuccessful">>

(***************************************************************************)
(* C4, as claimed: a run that found the slot already marked successful     *)
(* has invoked markBootSuccessful by the time it ends.                     *)
(***************************************************************************)
C4_AsClaimed ==
  (SlotQueried /\ is_successful = "TRUE" /\ pc = "returned") =>
    Called("markBootSuccessful")

(***************************************************************************)
(* C4, amended: a run that found the slot already marked successful never  *)
(* invokes markBootSuccessful; it leaves the slot as it is and returns 0.  *)
(***************************************************************************)
C4_AlreadySuccessfulIsNotMarkedAgain ==
  (SlotQueried /\ is_successful = "TRUE") =>
    /\ ~MarkAttempted
    /\ results.mark = <<>>
    /\ exit \in {<<>>, <<0>>}

C4_Witness ==
  /\ SlotQueried
  /\ is_successful = "TRUE"
  /\ pc = "returned"
  /\ ~Called("markBootSuccessful")

(***************************************************************************)
(* C5: with the slot not yet marked successful and ro.boot.veritymode      *)
(* empty or "disabled", neither ParseCareMap nor VerifyPartitions is       *)
(* called and markBootSuccessful is invoked.                               *)
(***************************************************************************)
C5_SkippedStillMarks ==
  (ModeRead /\ verity_mode \in {"", "disabled"}) =>
    /\ is_successful = "FALSE"
    /\ ~Called("ParseCareMap")
    /\ ~Called("VerifyPartitions")
    /\ pc \notin {"ParseCareMap", "VerifyPartitions"}
    /\ MarkAttempted

C5_Witness ==
  /\ verity_mode = "disabled"
  /\ calls = <<"getService", "getCurrentSlot", "isSlotMarkedSuccessful",
               "GetProperty", "markBootSuccessful">>

(***************************************************************************)
(* C6: with the slot not yet marked successful and the mode "enforcing" or *)
(* "eio", ParseCareMap is called, VerifyPartitions is called when the      *)
(* parse succeeded, and both come before any call of markBootSuccessful.   *)
(***************************************************************************)
C6_VerificationRunsBeforeMark ==
  (ModeRead /\ verity_mode \in {"enforcing", "eio"}) =>
    /\ pc = "ParseCareMap" \/ Called("ParseCareMap")
    /\ results.parse = <<TRUE>> =>
         pc = "VerifyPartitions" \/ Called("VerifyPartitions")
    /\ MarkAttempted =>
         /\ Called("ParseCareMap")
         /\ results.parse = <<TRUE>> =>
              Called("VerifyPartitions") /\ results.verify = <<TRUE>>
    /\ Called("markBootSuccessful") =>
         /\ CallIndex("ParseCareMap") < CallIndex("markBootSuccessful")
         /\ results.parse = <<TRUE>> =>
              CallIndex("VerifyPartitions") < CallIndex("markBootSuccessful")

C6_Witness ==
  /\ verity_mode = "eio"
  /\ results.parse = <<TRUE>>
  /\ results.verify = <<TRUE>>
  /\ Called("markBootSuccessful")

(***************************************************************************)
(* C7, as claimed: with the slot not yet marked successful, every mode     *)
(* other than "", "disabled", "enforcing" and "eio" - those that differ    *)
(* from them in letter case included - leads to the reboot with no parse,  *)
(* no verification and no markBootSuccessful.                              *)
(***************************************************************************)
C7_AsClaimed ==
  (ModeRead /\ verity_mode \notin {"", "disabled", "enforcing", "eio"}) =>
    /\ ~Called("ParseCareMap") /\ pc # "ParseCareMap"
    /\ ~Called("VerifyPartitions")
    /\ ~MarkAttempted
    /\ RebootRequested

(***************************************************************************)
(* C7, amended: "eio" and "disabled" are recognised in any letter case,    *)
(* "enforcing" only in lower case.  Every mode that is not empty, is not   *)
(* "eio" or "disabled" in any letter case, and is not exactly "enforcing"  *)
(* leads to the reboot with no parse, no verification and no               *)
(* markBootSuccessful.                                                     *)
(***************************************************************************)
C7_UnsupportedModeReboots ==
  (/\ ModeRead
   /\ verity_mode \notin {"", "enforcing"}
   /\ ~EqualsIgnoreCase(verity_mode, "eio")
   /\ ~EqualsIgnoreCase(verity_mode, "disabled")) =>
    /\ ~Called("ParseCareMap") /\ pc # "ParseCareMap"
    /\ ~Called("VerifyPartitions")
    /\ ~MarkAttempted
    /\ RebootRequested

C7_Witness ==
  /\ verity_mode = "Enforcing"
  /\ calls = <<"getService", "getCurrentSlot", "isSlotMarkedSuccessful",
               "GetProperty", "android_reboot">>

(***************************************************************************)
(* C8: when ParseCareMap returns false, VerifyPartitions is not called,    *)
(* markBootSuccessful is invoked, and a reboot is requested only if        *)
(* markBootSuccessful then reports failure.                                *)
(***************************************************************************)
C8_ParseFailureSkips ==
  results.parse = <<FALSE>> =>
    /\ ~Called("VerifyPartitions")
    /\ pc # "VerifyPartitions"
    /\ MarkAttempted
    /\ RebootRequested => results.mark = <<FALSE>>

\* A legacy care_map.txt: the parse fails and the slot is marked.
C8_Witness ==
  /\ results.parse = <<FALSE>>
  /\ txt \in DOMAIN care_files
  /\ StartsWith(care_files[txt].content, "/dev/block/")
  /\ results.mark = <<TRUE>>
  /\ exit = <<0>>

(***************************************************************************)
(* C9: when markBootSuccessful reports failure, a reboot is requested and  *)
(* the run does not return 0.                                              *)
(***************************************************************************)
C9_MarkFailureReboots ==
  results.mark = <<FALSE>> =>
    /\ RebootRequested
    /\ pc # "leave"
    /\ exit # <<0>>

C9_Witness ==
  /\ results.mark = <<FALSE>>
  /\ Called("android_reboot")
  /\ pc \in {"pause", "returned"}

(***************************************************************************)
(* C10: when getService returns null, the run goes to reboot_device at     *)
(* once: no slot query, no mode read, no care map parse, no worker, no     *)
(* block read and no markBootSuccessful.                                   *)
(***************************************************************************)
C10_NoServiceReboots ==
  (Called("getService") /\ module = "nullptr") =>
    /\ RebootRequested
    /\ calls \in {<<"getService">>, <<"getService", "android_reboot">>}
    /\ threads = <<>>
    /\ reads = {}
    /\ results.parse = <<>> /\ results.verify = <<>> /\ results.mark = <<>>

C10_Witness ==
  /\ module = "nullptr"
  /\ calls = <<"getService", "android_reboot">>
  /\ pc = "pause"

(***************************************************************************)
(* C11, as claimed: once the reboot has been requested, update_verifier    *)
(* never returns, whatever android_reboot answered.                        *)
(***************************************************************************)
C11_AsClaimed ==
  Called("android_reboot") => pc = "pause" /\ exit = <<>>

(***************************************************************************)
(* C11, amended: once the reboot has been requested, the run blocks for    *)
(* ever without returning when android_reboot succeeded, and returns -1    *)
(* when android_reboot failed; it never returns 0.                         *)
(***************************************************************************)
C11_RebootBlocksOrReturnsError ==
  Called("android_reboot") =>
    /\ results.reboot = <<TRUE>> => pc = "pause" /\ exit = <<>>
    /\ results.reboot = <<FALSE>> => pc = "returned" /\ exit = <<-1>>
    /\ results.reboot # <<>>
    /\ calls[Len(calls)] = "android_reboot"

C11_Witness ==
  /\ results.reboot = <<TRUE>>
  /\ results.verify = <<FALSE>>
  /\ pc = "pause"
  /\ exit = <<>>

(***************************************************************************)
(* C12: a run returns 0 only if the slot is marked successful: either      *)
(* isSlotMarkedSuccessful reported TRUE, or markBootSuccessful was invoked *)
(* in this run and reported success.                                       *)
(***************************************************************************)
C12_ExitZeroOnlyIfMarked ==
  exit = <<0>> => is_successful = "TRUE" \/ results.mark = <<TRUE>>

(***************************************************************************)
(* C13: when a partition of the manifest has no entry in the mapping that  *)
(* FindDmPartitions returned, VerifyPartitions returns false, whatever the *)
(* reads of the other partitions gave.                                     *)
(***************************************************************************)
C13_MissingDeviceFails ==
  (/\ results.verify # <<>>
   /\ \E name \in DOMAIN partition_map_ : name \notin DOMAIN dm_block_devices) =>
    results.verify = <<FALSE>>

\* "system" was read in full, "vendor" has no device.
C13_Witness ==
  /\ results.verify = <<FALSE>>
  /\ DOMAIN partition_map_ = {"system", "vendor"}
  /\ DOMAIN dm_block_devices = {"system"}
  /\ \A b \in BlocksOf(partition_map_["system"]) :
       ReadDone(dm_block_devices["system"], b)

\* scandir fails, or no dm entry exists, or no entry's name file is readable.
EmptyDiscovery(sys) ==
  \/ ~sys.scans
  \/ \A d \in sys.dir :
       dm_name_filter(d) =>
         ~(d \in DOMAIN sys.names /\ sys.names[d].opens /\ sys.names[d].reads)

(***************************************************************************)
(* C14: when the discovery finds no device, VerifyPartitions returns false *)
(* with no worker launched and no block read, and the run requests the     *)
(* reboot without invoking markBootSuccessful.                             *)
(***************************************************************************)
C14_EmptyDiscoveryFails ==
  (Called("VerifyPartitions") /\ EmptyDiscovery(sys_block)) =>
    /\ dm_block_devices = EmptyMap
    /\ results.verify = <<FALSE>>
    /\ threads = <<>>
    /\ reads = {}
    /\ RebootRequested
    /\ ~MarkAttempted

\* /sys/block holds dm entries, none with a readable name.
C14_Witness ==
  /\ Called("android_reboot")
  /\ results.verify = <<FALSE>>
  /\ sys_block.scans
  /\ \E d \in sys_block.dir : dm_name_filter(d)
  /\ EmptyDiscovery(sys_block)

\* The range set ReadBlocks was called with.
CurrentRanges == partition_map_[SortedKeys(DOMAIN partition_map_)[part_idx]]

InReadBlocks == pc \in {"launch", "join"}

(***************************************************************************)
(* C15: ReadBlocks returns only when every group has its worker and every  *)
(* worker has finished - also after a worker joined earlier has reported   *)
(* failure - and what it returns is the AND of the workers' results.       *)
(***************************************************************************)
C15_JoinsAllThenAnds ==
  [][(pc = "join" /\ pc' # "join") =>
       /\ Len(threads) = Len(groups)
       /\ \A w \in 1..Len(threads) : threads[w].pc = "done"
       /\ ret' = (\A w \in 1..Len(threads) : threads[w].result)
       /\ (pc' = "partition") = ret'
       /\ (results'.verify = <<FALSE>>) = ~ret']_vars

\* ReadBlocks waits for a worker after an earlier one has reported failure.
C15_Witness ==
  /\ pc = "join"
  /\ join_idx > 1
  /\ ~ret
  /\ \E w \in join_idx..Len(threads) : threads[w].pc # "done"

\* The operation the worker is about to issue fails on that device.
Failing(t, dev) ==
  \/ t.pc = "open" /\ ~dev.opens
  \/ t.pc = "lseek64" /\ ~SeekOk(dev, t.group[t.range][1] * kBlockSize)
  \/ t.pc = "ReadFully" /\ ~ReadOk(dev, t.off, Min(t.remain, kChunkBlocks * kBlockSize))

(***************************************************************************)
(* C16: a worker whose open, seek or read fails ends at that step with     *)
(* result false, nothing being read by the step, and a worker that has     *)
(* ended does nothing more: the operation is not issued again and no       *)
(* further chunk or range of its group is read.                            *)
(***************************************************************************)
C16_FirstFailureEndsWorker ==
  [][InReadBlocks =>
       \A w \in 1..Len(threads) :
         /\ threads[w].pc = "done" => threads'[w] = threads[w]
         /\ (threads'[w] # threads[w] /\ Failing(threads[w], devices[dm_block_device])) =>
              /\ threads'[w] = [threads[w] EXCEPT !.pc = "done", !.result = FALSE]
              /\ reads' = reads]_vars

\* ReadBlocks has returned; a worker failed in the first range of its group
\* and the ranges after it were never read.
C16_Witness ==
  /\ pc = "reboot_device"
  /\ devices[dm_block_device].opens
  /\ \E w \in 1..Len(threads) :
       /\ threads[w].pc = "done"
       /\ ~threads[w].result
       /\ threads[w].range < Len(threads[w].group)
       /\ \E i \in (threads[w].range + 1)..Len(threads[w].group) :
            \A b \in BlocksOf(<<threads[w].group[i]>>) : ~ReadDone(dm_block_device, b)

RECURSIVE SumBlocks(_)
SumBlocks(gs) == IF gs = <<>> THEN 0 ELSE Blocks(Head(gs)) + SumBlocks(Tail(gs))

(***************************************************************************)
(* C17: the groups of Split hold every block of the range set exactly      *)
(* once - no block is lost, none is in two groups or twice in a group -    *)
(* and the workers of ReadBlocks get groups that share no block.           *)
(***************************************************************************)
C17_SplitCoversOnce ==
  InReadBlocks =>
    /\ \A b \in BlocksOf(CurrentRanges) :
         Cardinality({g \in 1..Len(groups) : b \in BlocksOf(groups[g])}) = 1
    /\ \A g \in 1..Len(groups) : BlocksOf(groups[g]) \subseteq BlocksOf(CurrentRanges)
    /\ SumBlocks(groups) = Blocks(CurrentRanges)
    /\ \A w, v \in 1..Len(threads) :
         w # v => BlocksOf(threads[w].group) \cap BlocksOf(threads[v].group) = {}
    /\ pc = "join" =>
         UNION {BlocksOf(threads[w].group) : w \in 1..Len(threads)} = BlocksOf(CurrentRanges)

\* Three workers with blocks of their own have all read them.
C17_Witness ==
  /\ pc = "join"
  /\ Cardinality({w \in 1..Len(threads) : threads[w].group # <<>>}) = 3
  /\ \A w \in 1..Len(threads) : threads[w].pc = "done" /\ threads[w].result
  /\ \A b \in BlocksOf(CurrentRanges) : ReadDone(dm_block_device, b)

\* sub is made of elements of seq, in the order of seq.
RECURSIVE IsSubSeq(_, _)
IsSubSeq(sub, seq) ==
  IF sub = <<>> THEN TRUE
  ELSE IF seq = <<>> THEN FALSE
  ELSE IF Head(sub) = Head(seq) THEN IsSubSeq(Tail(sub), Tail(seq))
  ELSE IsSubSeq(sub, Tail(seq))

NumberTokens == {UintToString(n) : n \in 0..MaxBlock} \cup {"", "x", "-1"}

CountTokens == {"0", "1", "2", "3", "4", "x", ""}

RangeTexts ==
  { "0", "", "2", "0,0", "0,", "2,0,1,", ",2,0,1", "2,,0,1", "2 0 1",
    "3,1,2,3", "4,10,5,20,30", "4,0,10,20,30", "4,5,6,0,1", "4,0,1",
    "2,0,1,2,3", "6,0,1,2,3,4,5", "6,0,1,2,3,5,4", "2,64536,65343" }
    \cup {c \o "," \o a \o "," \o b : c \in CountTokens, a \in NumberTokens, b \in NumberTokens}
    \cup {"4," \o RangeSetToString(rs) : rs \in {r \in RangeSets : Len(r) = 1}}
    \cup {RangeSetToString(rs) : rs \in RangeSets}

ParseFiles ==
  {OneFile(txt, TextFile("system\n" \o t \o "\n")) : t \in RangeTexts}
    \cup {OneFile(pb, ProtoFile("proto", CareMapMessage(<<Partition("system", t)>>))) :
            t \in RangeTexts}
    \cup {OneFile(txt, TextFile(c)) : c \in TextContents}
    \cup {OneFile(pb, ProtoFile("proto", m)) : m \in Messages}
    \cup {OneFile(txt, TextFile("system\n2,0,1\n\n2,5,6\n")),
          OneFile(txt, TextFile("system\n2,0,1\nsystem\n2,5,6\n")),
          OneFile(txt, TextFile("system\n2,0,1\nvendor\n3,1,2,3\n")),
          OneFile(txt, TextFile("a\n2,0,1\nb\n2,1,2\nc\n2,2,3\nd\n2,3,4\n")),
          OneFile(txt, TextFile("a\n2,0,1\nb\n")),
          OneFile(txt, TextFile("a\n2,0,1\nb\n2,1,2\nc\n")),
          OneFile(txt, TextFile("a\n2,0,1\nb\n2,1,2\nc\n2,2,3\n")),
          OneFile(txt, TextFile("a\n2,0,1\nb\n2,1,2\nc\n2,2,3\nd\n")),
          OneFile(txt, TextFile("\n\n system\n2,0,1\n \n")),
          OneFile(txt, TextFile("system\n2,0,1\n/dev/block/vendor\n2,5,6\n")),
          OneFile(txt, TextFile("system\n3,1,2,3\n/dev/block/vendor\n2,5,6\n")),
          OneFile(txt, TextFile("system\n2,0,1\n/dev/block/vendor\n")),
          OneFile(txt, TextFile("/dev/block/system\n3,1,2,3\n")),
          OneFile(txt, TextFile("/dev/block/\n2,0,1\n")),
          OneFile(txt, TextFile("/dev/block\n2,0,1\n")),
          OneFile(txt, TextFile("x/dev/block/system\n2,0,1\n"))}
    \cup CareMapFiles

ParseInit ==
  /\ pc = "ParseCareMap"
  /\ calls = <<"getService", "getCurrentSlot", "isSlotMarkedSuccessful", "GetProperty">>
  /\ exit = <<>>
  /\ results = NoResults
  /\ module = "IBootControl"
  /\ is_successful = "FALSE"
  /\ verity_mode = "enforcing"
  /\ partition_map_ = EmptyMap
  /\ care_files \in ParseFiles
  /\ sys_block = [scans |-> FALSE, dir |-> {}, names |-> EmptyMap]
  /\ devices = EmptyMap
  /\ hardware_concurrency = 0
  /\ dm_block_devices = EmptyMap
  /\ part_idx = 0
  /\ dm_block_device = ""
  /\ groups = <<>>
  /\ threads = <<>>
  /\ join_idx = 0
  /\ ret = TRUE
  /\ reads = {}

\* verifier.ParseCareMap() on the files that are there.
ParseGivenCareMap ==
  /\ pc = "ParseCareMap"
  /\ LET parsed == ParseCareMap("", care_files)
     IN  /\ partition_map_' = parsed.partition_map
         /\ results' = [results EXCEPT !.parse = <<parsed.ret>>]
         /\ pc' = AfterParse(parsed.ret)
  /\ calls' = Append(calls, "ParseCareMap")
  /\ UNCHANGED <<exit, module, is_successful, verity_mode, care_files,
                 discovery_vars, readblocks_vars>>

ParseNext == ParseGivenCareMap

ParseSpec == ParseInit /\ [][ParseNext]_vars

\* ParseCareMap has returned.
Parsed == results.parse # <<>>

\* The care map is one partition, "system", with one range string, and
\* ParseCareMap has read it.
OneRangeString ==
  \/ /\ DOMAIN care_files = {txt}
     /\ care_files[txt].opens /\ care_files[txt].reads
     /\ LET lines == Split(Trim(care_files[txt].content), "\n")
        IN  Len(lines) = 2 /\ lines[1] = "system"
  \/ /\ DOMAIN care_files = {pb}
     /\ care_files[pb].access /\ care_files[pb].opens /\ care_files[pb].reads
     /\ care_files[pb].content # ""
     /\ care_files[pb].message.parses
     /\ Len(care_files[pb].message.partitions) = 1
     /\ care_files[pb].message.partitions[1].name = "system"
     /\ care_files[pb].message.partitions[1].ranges # ""

\* That range string.
RangeString ==
  IF DOMAIN care_files = {txt}
  THEN Split(Trim(care_files[txt].content), "\n")[2]
  ELSE care_files[pb].message.partitions[1].ranges

\* The text is a leading even count followed by exactly count non-negative
\* integers, every pair of them with start < end.
WellFormedRanges(text) ==
  LET tokens == Split(text, ",")
  IN  /\ \A i \in 1..Len(tokens) : IsUint(tokens[i])
      /\ ParseUint(tokens[1]) % 2 = 0
      /\ Len(tokens) = ParseUint(tokens[1]) + 1
      /\ \A k \in 1..((Len(tokens) - 1) \div 2) :
           ParseUint(tokens[2 * k]) < ParseUint(tokens[2 * k + 1])

\* The pairs a well-formed text stands for.
PairsOf(text) ==
  LET tokens == Split(text, ",")
  IN  [k \in 1..((Len(tokens) - 1) \div 2) |->
         <<ParseUint(tokens[2 * k]), ParseUint(tokens[2 * k + 1])>>]

(***************************************************************************)
(* C19: a range string parses exactly when it is a leading even count      *)
(* followed by exactly count non-negative integers with start < end in     *)
(* every pair, and then the entry holds exactly those pairs; any other     *)
(* string fails the parse and leaves no entry; "0" parses, to an entry     *)
(* with no pair, which a failure never leaves.                             *)
(***************************************************************************)
C19_ParseExactlyWellFormed ==
  (Parsed /\ OneRangeString) =>
    /\ results.parse = <<WellFormedRanges(RangeString)>>
    /\ WellFormedRanges(RangeString) =>
         /\ DOMAIN partition_map_ = {"system"}
         /\ partition_map_["system"] = PairsOf(RangeString)
    /\ ~WellFormedRanges(RangeString) => partition_map_ = EmptyMap
    /\ RangeString = "0" => results.parse = <<TRUE>> /\ partition_map_["system"] = <<>>
    /\ RangeString \in {"3,1,2,3", "4,10,5,20,30"} => results.parse = <<FALSE>>

\* A string with the right count whose first pair has start >= end has
\* failed the parse.
C19_Witness ==
  /\ Parsed
  /\ OneRangeString
  /\ RangeString = "4,10,5,20,30"
  /\ results.parse = <<FALSE>>
  /\ partition_map_ = EmptyMap

(***************************************************************************)
(* C20: after a ParseCareMap that returned true, partition_map_ is not     *)
(* empty and every entry has a non-empty name and a non-empty range set.   *)
(***************************************************************************)
C20_ParsedEntriesNonEmpty ==
  results.parse = <<TRUE>> =>
    /\ partition_map_ # EmptyMap
    /\ \A name \in DOMAIN partition_map_ :
         name # "" /\ partition_map_[name] # <<>>

\* ParseCareMap read the plain-text care map and handed it to
\* ParseCareMapPlainText.
PlainTextRead ==
  /\ Parsed
  /\ CareMapName("", care_files) = txt
  /\ txt \in DOMAIN care_files
  /\ care_files[txt].opens
  /\ care_files[txt].reads
  /\ care_files[txt].content # ""

\* The records of the plain-text care map.
Records == Split(Trim(care_files[txt].content), "\n")

(***************************************************************************)
(* C21: a plain-text care map is accepted only with 2, 4 or 6 records;     *)
(* with any other number it is rejected and no entry is made; with 2       *)
(* records, a name and a well-formed range string, it parses to exactly    *)
(* one entry, under that name and with the pairs of the string.            *)
(***************************************************************************)
C21_RecordCount ==
  PlainTextRead =>
    /\ results.parse = <<TRUE>> => Len(Records) \in {2, 4, 6}
    /\ Len(Records) \notin {2, 4, 6} =>
         results.parse = <<FALSE>> /\ partition_map_ = EmptyMap
    /\ ( /\ Len(Records) = 2
         /\ ~StartsWith(Records[1], "/dev/block/")
         /\ WellFormedRanges(Records[2]) ) =>
         /\ results.parse = <<TRUE>>
         /\ DOMAIN partition_map_ = {Records[1]}
         /\ partition_map_[Records[1]] = PairsOf(Records[2])

\* Eight records, every pair of them well formed, have been rejected.
C21_Witness ==
  /\ PlainTextRead
  /\ Len(Records) = 8
  /\ \A i \in 1..4 : WellFormedRanges(Records[2 * i])
  /\ results.parse = <<FALSE>>

\* A partition name of the plain-text care map starts with the legacy prefix.
HasLegacyName ==
  \E i \in 1..Len(Records) : i % 2 = 1 /\ StartsWith(Records[i], "/dev/block/")

\* What ParseCareMap hands to its caller: the value it returns, and the
\* partition_map_ it leaves in the verifier.
Outcome == [ret |-> results.parse[1], partition_map |-> partition_map_]

\* A run with no care map at all, and one with a plain-text care map whose
\* range string is malformed.
UnavailableFiles == EmptyMap

MalformedFiles == OneFile(txt, TextFile("system\n3,1,2,3\n"))

(***************************************************************************)
(* C22: a plain-text care map with a legacy partition name is rejected,    *)
(* and with an outcome that differs from the outcome of a malformed care   *)
(* map and from the outcome of a care map that is not there.               *)
(***************************************************************************)
C22_LegacyToldApart ==
  (PlainTextRead /\ HasLegacyName) =>
    /\ results.parse = <<FALSE>>
    /\ Outcome # ParseCareMap("", MalformedFiles)
    /\ Outcome # ParseCareMap("", UnavailableFiles)

\* access(care_map.pb, R_OK) succeeds.
BinaryReadable == pb \in DOMAIN care_files /\ care_files[pb].access

\* The names of the descriptors of the binary care map.
BinaryNames ==
  {care_files[pb].message.partitions[i].name :
     i \in 1..Len(care_files[pb].message.partitions)}

(***************************************************************************)
(* C23: with no explicit path, ParseCareMap takes the binary care map when *)
(* it is readable: its result is then made of the descriptors of           *)
(* care_map.pb, and a care_map.pb that cannot be opened or read, is empty  *)
(* or does not decode fails the parse with no entry, whatever care_map.txt *)
(* holds.  Only when care_map.pb is not readable is care_map.txt parsed.   *)
(***************************************************************************)
C23_BinaryFirst ==
  Parsed =>
    /\ BinaryReadable =>
         /\ ( \/ ~care_files[pb].opens
              \/ ~care_files[pb].reads
              \/ care_files[pb].content = ""
              \/ ~care_files[pb].message.parses ) =>
              results.parse = <<FALSE>> /\ partition_map_ = EmptyMap
         /\ results.parse = <<TRUE>> =>
              /\ care_files[pb].message.parses
              /\ DOMAIN partition_map_ = BinaryNames
    /\ (~BinaryReadable /\ txt \in DOMAIN care_files) =>
         Outcome = ParseCareMap(txt, OneFile(txt, care_files[txt]))
    /\ (~BinaryReadable /\ txt \in DOMAIN care_files /\ care_files[txt] = TextFile(GoodText)) =>
         /\ results.parse = <<TRUE>>
         /\ partition_map_ = [n \in {"system"} |-> <<(<<0, 10>>), (<<20, 30>>)>>]

\* An empty care_map.pb has failed the parse although care_map.txt is good.
C23_Witness ==
  /\ Parsed
  /\ BinaryReadable
  /\ care_files[pb].content = ""
  /\ txt \in DOMAIN care_files
  /\ care_files[txt] = TextFile(GoodText)
  /\ results.parse = <<FALSE>>
  /\ partition_map_ = EmptyMap

\* FindDmPartitions has run and scandir succeeded.
Discovered == Called("VerifyPartitions") /\ sys_block.scans

\* The dm-N entries of /sys/block whose name file can be read.
ReadableEntries ==
  {d \in sys_block.dir :
     /\ dm_name_filter(d)
     /\ d \in DOMAIN sys_block.names
     /\ sys_block.names[d].opens
     /\ sys_block.names[d].reads}

\* The key an entry is recorded under.
KeyOf(d) ==
  IF Trim(sys_block.names[d].content) = "vroot" THEN "system"
  ELSE Trim(sys_block.names[d].content)

\* C24 as the claim puts it: every readable entry is recorded, under its
\* key and with its own device path.
C24_AsClaimed ==
  Discovered =>
    /\ DOMAIN dm_block_devices = {KeyOf(d) : d \in ReadableEntries}
    /\ \A d \in ReadableEntries : dm_block_devices[KeyOf(d)] = "/dev/block/" \o d

(***************************************************************************)
(* C24: FindDmPartitions records the readable dm-N entries, "vroot" under  *)
(* the key "system" and every other trimmed name unchanged, each with      *)
(* "/dev/block/" and the entry name; entries that cannot be read are left  *)
(* out and the others are still recorded.  Of several entries with the     *)
(* same key, the one whose entry name sorts last is the one recorded.      *)
(***************************************************************************)
C24_DiscoveryRecords ==
  Discovered =>
    /\ DOMAIN dm_block_devices = {KeyOf(d) : d \in ReadableEntries}
    /\ \A d \in ReadableEntries :
         \/ dm_block_devices[KeyOf(d)] = "/dev/block/" \o d
         \/ \E later \in ReadableEntries :
              /\ KeyOf(later) = KeyOf(d)
              /\ StrLess(d, later)
              /\ dm_block_devices[KeyOf(d)] = "/dev/block/" \o later

\* One entry could not be read, and the entry named "vroot" is recorded
\* under "system".
C24_Witness ==
  /\ Discovered
  /\ \E d \in sys_block.dir : dm_name_filter(d) /\ d \notin ReadableEntries
  /\ \E d \in ReadableEntries :
       /\ Trim(sys_block.names[d].content) = "vroot"
       /\ dm_block_devices = [k \in {"system"} |-> "/dev/block/" \o d]

\* The loop of VerifyPartitions has come to the partition of that position
\* in the order of the manifest: its device has been looked up.
Evaluated(position) == position <= part_idx

(***************************************************************************)
(* C25: when VerifyPartitions returns, every partition of the manifest     *)
(* has been evaluated, also the ones after a partition that has no device  *)
(* or whose blocks could not be read.                                      *)
(***************************************************************************)
C25_AllPartitionsEvaluated ==
  (results.verify # <<>> /\ dm_block_devices # EmptyMap) =>
    \A position \in 1..Cardinality(DOMAIN partition_map_) : Evaluated(position)

\* The worker has been launched and has not finished.
Running(w) == threads[w].pc # "done"

(***************************************************************************)
(* C26: workers of different partitions never run at the same time: when   *)
(* VerifyPartitions is between two partitions no worker is running, and    *)
(* the workers that run while ReadBlocks is active are all workers of the  *)
(* partition it was called for, on that partition's device.                *)
(***************************************************************************)
C26_OnePartitionAtATime ==
  /\ pc = "partition" => \A w \in 1..Len(threads) : ~Running(w)
  /\ InReadBlocks =>
       /\ dm_block_device = dm_block_devices[SortedKeys(DOMAIN partition_map_)[part_idx]]
       /\ groups = RangeSetSplit(CurrentRanges, ThreadNum(hardware_concurrency))
       /\ \A w \in 1..Len(threads) : threads[w].group = groups[w]
  /\ ~InReadBlocks => \A w \in 1..Len(threads) : ~Running(w)

\* A worker of the second partition is reading while the blocks of the
\* first partition have all been read by workers that have finished.
C26_Witness ==
  /\ pc = "join"
  /\ part_idx = 2
  /\ \E w \in 1..Len(threads) : threads[w].pc = "ReadFully"
  /\ LET first == SortedKeys(DOMAIN partition_map_)[1]
     IN  /\ dm_block_devices[first] # dm_block_device
         /\ \A b \in BlocksOf(partition_map_[first]) : ReadDone(dm_block_devices[first], b)

\* The device can be opened and delivers every block of the group.
GroupPasses(dev, group) ==
  /\ dev.opens
  /\ \A i \in 1..Len(group) :
       /\ SeekOk(dev, group[i][1] * kBlockSize)
       /\ \A b \in group[i][1]..(group[i][2] - 1) : ~Unreadable(dev, b)

(***************************************************************************)
(* C27: what ReadBlocks returns is fixed by the device and the range set,  *)
(* whatever the order of the workers' steps: a step of a worker changes    *)
(* that worker only, a worker's result is whether the device delivers its  *)
(* group, ret is written by the loop of the joins alone, and the value     *)
(* returned is that every group is delivered.                              *)
(***************************************************************************)
C27_ResultIndependentOfInterleaving ==
  [][InReadBlocks =>
       /\ \A w \in 1..Len(threads) :
            threads'[w] # threads[w] =>
              /\ \A v \in 1..Len(threads) : v # w => threads'[v] = threads[v]
              /\ pc' = pc /\ ret' = ret /\ join_idx' = join_idx
              /\ threads'[w].pc = "done" =>
                   threads'[w].result = GroupPasses(devices[dm_block_device], threads[w].group)
       /\ (pc = "join" /\ pc' # "join") =>
            ret' = (\A g \in 1..Len(groups) : GroupPasses(devices[dm_block_device], groups[g]))]_vars

\* The second worker has finished its group before the first worker, whose
\* group holds a block the device does not deliver, has opened the device.
C27_Witness ==
  /\ pc = "join"
  /\ Len(threads) >= 2
  /\ threads[1].pc = "open"
  /\ devices[dm_block_device].opens
  /\ ~GroupPasses(devices[dm_block_device], threads[1].group)
  /\ threads[2].pc = "done"
  /\ threads[2].result
  /\ threads[2].group # <<>>

\* The pair a worker is at.
RangeStart(t) == t.group[t.range][1]

RangeEnd(t) == t.group[t.range][2]

C29_FailedParseLeavesNothing ==
  results.parse = <<FALSE>> => partition_map_ = EmptyMap

(***************************************************************************)
(* The run under the assumption that every call to the boot control HAL,   *)
(* to the property and file systems and to the devices returns, and that   *)
(* every worker thread is scheduled: a step that can be taken is taken.    *)
(* NextPartition is enabled exactly when pc = "partition" and always       *)
(* leaves it, so its weak fairness is that pc is not "partition" for ever. *)
(***************************************************************************)
\* A step of some worker thread.
WorkerStep == \E w \in 1..Len(threads) : WorkerOpen(w) \/ WorkerSeek(w) \/ WorkerRead(w)

Fairness ==
  /\ WF_vars(GetService)
  /\ WF_vars(IsSlotMarkedSuccessful)
  /\ WF_vars(GetProperty)
  /\ WF_vars(DoParseCareMap)
  /\ WF_vars(VerifyPartitions)
  /\ []<>(pc # "partition")
  /\ WF_vars(Launch)
  /\ WF_vars(WorkerStep)
  /\ WF_vars(Join)
  /\ WF_vars(MarkBootSuccessful)
  /\ WF_vars(RebootDevice)
  /\ WF_vars(Leave)

LiveSpec == Init /\ [][Next]_vars /\ Fairness

\* Number of invocations of markBootSuccessful so far.
MarkCalls == Cardinality({i \in 1..Len(calls) : calls[i] = "markBootSuccessful"})

(***************************************************************************)
(* C30: in every run markBootSuccessful is invoked at most once, no reboot *)
(* is requested once markBootSuccessful has reported success, and the run  *)
(* eventually returns 0 or requests a reboot.                              *)
(***************************************************************************)
C30_MarksOnceAndEnds ==
  /\ [](MarkCalls <= 1)
  /\ [](results.mark = <<TRUE>> => ~RebootRequested)
  /\ <>(exit = <<0>> \/ RebootRequested)

\* The run has verified the blocks, marked the slot once and returned 0.
C30_Witness ==
  /\ exit = <<0>>
  /\ results.verify = <<TRUE>>
  /\ results.mark = <<TRUE>>
  /\ MarkCalls = 1
  /\ ~RebootRequested

====
